---- MODULE Spec2Model ----
(***************************************************************************)
(* Model of src/src/tweenable.rs (bevy_tweening): the Tweenable contract  *)
(* and its four implementations Tween, Sequence, Tracks and Delay.        *)
(*                                                                         *)
(* Time is counted in whole units (a Duration is a natural number).  A    *)
(* progress or a lens factor is an exact fraction <<num, den>>; f32        *)
(* rounding is not modelled.  Durations are positive.                      *)
(*                                                                         *)
(* A tweenable is a record tagged by "kind"; a Box<dyn Tweenable> call is  *)
(* a dispatch on that tag.  tick returns the new tweenable, the returned   *)
(* TweenState and the effects of the call in order (lens applications,     *)
(* events sent, callbacks invoked).                                        *)
(***************************************************************************)
EXTENDS Integers, Sequences, FiniteSets, TLC

VARIABLES
    tw,        \* the top-level tweenable owned by the driver
    target,    \* the target component: last factor written by each lens
    last,      \* the last call made by the driver and what it returned
    seeked,    \* set_progress was called since construction or last rewind
    total,     \* while ~seeked: sum of the deltas ticked since construction
               \* or last rewind
    used,      \* while ~seeked: the deltas ticked since then
    ended,     \* while ~seeked: a tick since then returned Completed
    cb_mon     \* while ~seeked: CallbackMonitor of the driver (tests, lines
               \* 649-653), started at construction or last rewind

vars == <<tw, target, last, seeked, total, used, ended, cb_mon>>

----------------------------------------------------------------------------
(* Bounds of the model *)

MaxDur == 3
MaxDelta == 5
MaxTotal == 7
MaxCompleted == 3
PDen == 2
MaxPNum == 5
MaxLiveTicks == 12

Durations == 2..MaxDur
Deltas == 0..MaxDelta
\* the progress values handed to set_progress: -1/PDen, 0, 1/PDen, ..., MaxPNum/PDen
Progresses == {<<k, PDen>> : k \in (-1)..MaxPNum}

----------------------------------------------------------------------------
(* Fractions *)

REq(a, b) == a[1] * b[2] = b[1] * a[2]
RLt(a, b) == a[1] * b[2] < b[1] * a[2]
RIsOne(a) == a[1] = a[2]
RIsZero(a) == a[1] = 0

Min(a, b) == IF a <= b THEN a ELSE b
Max(a, b) == IF a >= b THEN a ELSE b

\* Duration::from_secs_f64(duration.as_secs_f64() * p): whole units, truncated
ScaleDuration(d, p) == (d * p[1]) \div p[2]

----------------------------------------------------------------------------
(* bevy Timer, as used by Tween and Delay *)

TimerNew(duration, repeating) ==
    [duration |-> duration, elapsed |-> 0, repeating |-> repeating,
     finished |-> FALSE, times_finished |-> 0]

TimerTick(timer, delta) ==
    IF ~timer.repeating /\ timer.finished
    THEN [timer EXCEPT !.times_finished = 0]
    ELSE LET e == timer.elapsed + delta IN
         IF e >= timer.duration
         THEN IF timer.repeating
              THEN LET n == e \div timer.duration IN
                   [timer EXCEPT !.finished = TRUE, !.times_finished = n,
                                 !.elapsed = e - timer.duration * n]
              ELSE [timer EXCEPT !.finished = TRUE, !.times_finished = 1,
                                 !.elapsed = timer.duration]
         ELSE [timer EXCEPT !.finished = FALSE, !.times_finished = 0,
                            !.elapsed = e]

\* set_elapsed() does not update finished() etc. (comment at line 274)
TimerSetElapsed(timer, e) == [timer EXCEPT !.elapsed = e]

TimerReset(timer) ==
    [timer EXCEPT !.elapsed = 0, !.finished = FALSE, !.times_finished = 0]

TimerJustFinished(timer) == timer.times_finished > 0

TimerPercent(timer) == <<timer.elapsed, timer.duration>>

TimerPercentLeft(timer) == <<timer.duration - timer.elapsed, timer.duration>>

----------------------------------------------------------------------------
(* External capabilities: easing and lens *)

\* EaseMethod::sample: Linear is the identity, QuadraticIn squares
Sample(ease_function, p) ==
    IF ease_function = "Linear" THEN p ELSE <<p[1] * p[1], p[2] * p[2]>>

Lerp(lens, factor) == [eff |-> "lerp", who |-> lens, arg |-> factor]
SendEvent(lens) == [eff |-> "event", who |-> lens, arg |-> <<>>]
Callback(lens, n) == [eff |-> "callback", who |-> lens, arg |-> <<n>>]

Flip(direction) == IF direction = "Forward" THEN "Backward" ELSE "Forward"

----------------------------------------------------------------------------
(* Tween *)

Tween_new(ease_function, tweening_type, duration, lens) ==
    [kind |-> "Tween",
     ease_function |-> ease_function,
     timer |-> TimerNew(duration, tweening_type # "Once"),
     tweening_type |-> tweening_type,
     direction |-> "Forward",
     times_completed |-> 0,
     lens |-> lens,
     on_completed |-> FALSE,
     raise_event |-> FALSE]

with_completed_event(t, enabled) == [t EXCEPT !.raise_event = enabled]

\* on_completed = Some(callback); the callback is the driver's monitor
set_completed(t) == [t EXCEPT !.on_completed = TRUE]

Tween_duration(t) == t.timer.duration

\* no tween counts as looping
Tween_is_looping_never(t) == FALSE

Tween_is_looping(t) == t.tweening_type # "Once"

Tween_set_progress(t, progress) ==
    [t EXCEPT !.timer =
        TimerTick(TimerSetElapsed(t.timer, ScaleDuration(t.timer.duration, progress)), 0)]

Tween_progress(t) ==
    IF t.direction = "Forward" THEN TimerPercent(t.timer)
                               ELSE TimerPercentLeft(t.timer)

\* Tween::tick past its early return: the timer is ticked, the lens applied
\* and a completion reported
\* the factor is computed before the direction is flipped
Tween_advance_stale_direction(t, delta) ==
    LET timer1 == TimerTick(t.timer, delta)
        just_finished == TimerJustFinished(timer1)
        t0 == [t EXCEPT !.timer = timer1]
        factor == Sample(t.ease_function, Tween_progress(t0))
        t1 == [t0 EXCEPT !.direction =
                            IF just_finished /\ t.tweening_type = "PingPong"
                            THEN Flip(@) ELSE @]
        t2 == IF just_finished
              THEN [t1 EXCEPT !.times_completed = @ + timer1.times_finished]
              ELSE t1
    IN [tw |-> t2,
        state |-> IF just_finished /\ t.tweening_type = "Once"
                  THEN "Completed" ELSE "Active",
        log |-> <<Lerp(t.lens, factor)>>
                \o (IF just_finished /\ t.raise_event
                    THEN <<SendEvent(t.lens)>> ELSE <<>>)
                \o (IF just_finished /\ t.on_completed
                    THEN <<Callback(t.lens, t2.times_completed)>> ELSE <<>>)]

\* a tick counts one completion however many periods the delta spans
Tween_advance_single(t, delta) ==
    LET timer1 == TimerTick(t.timer, delta)
        just_finished == TimerJustFinished(timer1)
        t1 == [t EXCEPT !.timer = timer1,
                        !.direction =
                            IF just_finished /\ t.tweening_type = "PingPong"
                            THEN Flip(@) ELSE @]
        factor == Sample(t.ease_function, Tween_progress(t1))
        t2 == IF just_finished
              THEN [t1 EXCEPT !.times_completed = @ + 1]
              ELSE t1
    IN [tw |-> t2,
        state |-> IF just_finished /\ t.tweening_type = "Once"
                  THEN "Completed" ELSE "Active",
        log |-> <<Lerp(t.lens, factor)>>
                \o (IF just_finished /\ t.raise_event
                    THEN <<SendEvent(t.lens)>> ELSE <<>>)
                \o (IF just_finished /\ t.on_completed
                    THEN <<Callback(t.lens, t2.times_completed)>> ELSE <<>>)]

Tween_advance(t, delta) ==
    LET timer1 == TimerTick(t.timer, delta)
        just_finished == TimerJustFinished(timer1)
        t1 == [t EXCEPT !.timer = timer1,
                        !.direction =
                            IF just_finished /\ t.tweening_type = "PingPong"
                            THEN Flip(@) ELSE @]
        factor == Sample(t.ease_function, Tween_progress(t1))
        t2 == IF just_finished
              THEN [t1 EXCEPT !.times_completed = @ + timer1.times_finished]
              ELSE t1
    IN [tw |-> t2,
        state |-> IF just_finished /\ t.tweening_type = "Once"
                  THEN "Completed" ELSE "Active",
        log |-> <<Lerp(t.lens, factor)>>
                \o (IF just_finished /\ t.raise_event
                    THEN <<SendEvent(t.lens)>> ELSE <<>>)
                \o (IF just_finished /\ t.on_completed
                    THEN <<Callback(t.lens, t2.times_completed)>> ELSE <<>>)]

\* a finished one-shot tween is ticked again: the early return is missing
Tween_tick_unguarded(t, delta) == Tween_advance(t, delta)

\* the early return is taken by every finished timer, a repeating one included
Tween_tick_any_finished(t, delta) ==
    IF t.timer.finished
    THEN [tw |-> t, state |-> "Completed", log |-> <<>>]
    ELSE Tween_advance(t, delta)

Tween_tick(t, delta) ==
    IF ~Tween_is_looping(t) /\ t.timer.finished
    THEN [tw |-> t, state |-> "Completed", log |-> <<>>]
    ELSE Tween_advance(t, delta)

Tween_times_completed(t) == t.times_completed

Tween_rewind(t) == [t EXCEPT !.timer = TimerReset(@), !.times_completed = 0]

----------------------------------------------------------------------------
(* Delay *)

Delay_new(duration) == [kind |-> "Delay", timer |-> TimerNew(duration, FALSE)]

Delay_duration(t) == t.timer.duration

Delay_set_progress(t, progress) ==
    [t EXCEPT !.timer =
        TimerTick(TimerSetElapsed(t.timer, ScaleDuration(t.timer.duration, progress)), 0)]

Delay_progress(t) == TimerPercent(t.timer)

\* Completed is reported for the tick that finishes the timer only
Delay_tick_just_finished(t, delta) ==
    LET timer1 == TimerTick(t.timer, delta) IN
    [tw |-> [t EXCEPT !.timer = timer1],
     state |-> IF TimerJustFinished(timer1) THEN "Completed" ELSE "Active",
     log |-> <<>>]

Delay_tick(t, delta) ==
    LET timer1 == TimerTick(t.timer, delta) IN
    [tw |-> [t EXCEPT !.timer = timer1],
     state |-> IF timer1.finished THEN "Completed" ELSE "Active",
     log |-> <<>>]

Delay_times_completed(t) == IF t.timer.finished THEN 1 ELSE 0

Delay_rewind(t) == [t EXCEPT !.timer = TimerReset(@)]

----------------------------------------------------------------------------
(* The Tweenable trait: dispatch on the kind of the boxed object *)

RECURSIVE set_progress(_, _)
RECURSIVE tick(_, _)
RECURSIVE rewind(_)
RECURSIVE Sequence_seek(_, _, _, _)
RECURSIVE Tracks_tick_loop(_, _, _, _, _)
RECURSIVE SumDurations(_)
RECURSIVE MaxDurations(_)

duration(t) ==
    CASE t.kind = "Tween" -> Tween_duration(t)
      [] t.kind = "Delay" -> Delay_duration(t)
      [] OTHER -> t.duration

is_looping(t) ==
    CASE t.kind = "Tween" -> Tween_is_looping(t)
      [] OTHER -> FALSE

progress(t) ==
    CASE t.kind = "Tween" -> Tween_progress(t)
      [] t.kind = "Delay" -> Delay_progress(t)
      [] OTHER -> <<t.time, t.duration>>

times_completed(t) ==
    CASE t.kind = "Tween" -> Tween_times_completed(t)
      [] t.kind = "Delay" -> Delay_times_completed(t)
      [] OTHER -> t.times_completed

SumDurations(items) ==
    IF items = <<>> THEN 0 ELSE duration(Head(items)) + SumDurations(Tail(items))

MaxDurations(items) ==
    IF Len(items) = 1 THEN duration(Head(items))
    ELSE Max(duration(Head(items)), MaxDurations(Tail(items)))

----------------------------------------------------------------------------
(* Sequence *)

\* items is non-empty (assert!(!tweens.is_empty()))
Sequence_new(items) ==
    [kind |-> "Sequence", tweens |-> items, index |-> 0,
     duration |-> SumDurations(items), time |-> 0, times_completed |-> 0]

Sequence_from_single(tween) ==
    [kind |-> "Sequence", tweens |-> <<tween>>, index |-> 0,
     duration |-> duration(tween), time |-> 0, times_completed |-> 0]

\* the child is appended but its duration is not added
Sequence_then_same_duration(s, tween) == [s EXCEPT !.tweens = Append(@, tween)]

Sequence_then(s, tween) ==
    [s EXCEPT !.duration = @ + duration(tween), !.tweens = Append(@, tween)]

Tween_then(t, tween) == Sequence_then(Sequence_from_single(t), tween)

Delay_then(t, tween) == Sequence_then(Sequence_from_single(t), tween)

Sequence_index(s) == Min(s.index, Len(s.tweens) - 1)

Sequence_current(s) == s.tweens[Sequence_index(s) + 1]

\* f32::fract and f32 as u32 of a non-negative fraction
RFract(p) == <<p[1] % p[2], p[2]>>
RTrunc(p) == p[1] \div p[2]
RMax0(p) == IF p[1] < 0 THEN <<0, p[2]>> ELSE p
RMin1(p) == IF p[1] > p[2] THEN <<1, 1>> ELSE p

RECURSIVE Sequence_seek_inclusive(_, _, _, _)
\* the child that ends at the sought time still owns it
Sequence_seek_inclusive(s, index, accum, te) ==
    IF index >= Len(s.tweens)
    THEN [s EXCEPT !.index = Len(s.tweens)]
    ELSE LET tween == s.tweens[index + 1]
             tween_duration == duration(tween)
         IN IF te[1] <= (accum + tween_duration) * te[2]
            THEN LET local_num == te[1] - accum * te[2] IN
                 [s EXCEPT !.index = index,
                           !.tweens[index + 1] =
                               set_progress(tween, <<local_num, te[2] * tween_duration>>)]
            ELSE Sequence_seek_inclusive(
                     [s EXCEPT !.tweens[index + 1] = set_progress(tween, <<1, 1>>)],
                     index + 1, accum + tween_duration, te)

\* the loop of Sequence::set_progress from child `index` on; total_elapsed_secs
\* is the fraction te, accum_duration is accum
Sequence_seek(s, index, accum, te) ==
    IF index >= Len(s.tweens)
    THEN [s EXCEPT !.index = Len(s.tweens)]
    ELSE LET tween == s.tweens[index + 1]
             tween_duration == duration(tween)
         IN IF te[1] < (accum + tween_duration) * te[2]
            THEN LET local_num == te[1] - accum * te[2] IN
                 [s EXCEPT !.index = index,
                           !.tweens[index + 1] =
                               set_progress(tween, <<local_num, te[2] * tween_duration>>)]
            ELSE Sequence_seek(
                     [s EXCEPT !.tweens[index + 1] = set_progress(tween, <<1, 1>>)],
                     index + 1, accum + tween_duration, te)

\* the seek leaves times_completed as it was
Sequence_set_progress_keep_count(s, p) ==
    LET progress0 == RMax0(p)
        progress1 == IF is_looping(s) THEN RFract(progress0) ELSE RMin1(progress0)
        s1 == [s EXCEPT !.time = ScaleDuration(s.duration, progress1)]
    IN Sequence_seek(s1, 0, 0, <<s.duration * progress1[1], progress1[2]>>)

Sequence_set_progress(s, p) ==
    LET progress0 == RMax0(p)
        progress1 == IF is_looping(s) THEN RFract(progress0) ELSE RMin1(progress0)
        s1 == [s EXCEPT !.times_completed = RTrunc(progress0),
                        !.time = ScaleDuration(s.duration, progress1)]
    IN Sequence_seek(s1, 0, 0, <<s.duration * progress1[1], progress1[2]>>)

\* a completed child is rewound but the index stays on it
Sequence_tick_no_advance(s, delta) ==
    IF s.index < Len(s.tweens)
    THEN LET time1 == Min(s.time + delta, s.duration)
             r == tick(s.tweens[s.index + 1], delta)
             completed == r.state = "Completed"
         IN [tw |-> [s EXCEPT !.time = time1,
                              !.tweens[s.index + 1] =
                                  IF completed THEN rewind(r.tw) ELSE r.tw],
             state |-> "Active",
             log |-> r.log]
    ELSE [tw |-> s, state |-> "Completed", log |-> <<>>]

\* the tick that completes a child goes on into the next child
Sequence_tick_carry(s, delta) ==
    IF s.index < Len(s.tweens)
    THEN LET time1 == Min(s.time + delta, s.duration)
             r == tick(s.tweens[s.index + 1], delta)
             completed == r.state = "Completed"
             index1 == IF completed THEN s.index + 1 ELSE s.index
             done == completed /\ index1 >= Len(s.tweens)
             s1 == [s EXCEPT !.time = time1,
                             !.tweens[s.index + 1] =
                                 IF completed THEN rewind(r.tw) ELSE r.tw,
                             !.index = index1,
                             !.times_completed = IF done THEN 1 ELSE @]
             r2 == tick(s.tweens[index1 + 1], delta)
         IN IF completed /\ ~done
            THEN [tw |-> [s1 EXCEPT !.tweens[index1 + 1] = r2.tw],
                  state |-> "Active", log |-> r.log \o r2.log]
            ELSE [tw |-> s1,
                  state |-> IF done THEN "Completed" ELSE "Active",
                  log |-> r.log]
    ELSE [tw |-> s, state |-> "Completed", log |-> <<>>]

\* an exhausted sequence starts over instead of staying completed
Sequence_tick_restart(s, delta) ==
    IF s.index < Len(s.tweens)
    THEN LET time1 == Min(s.time + delta, s.duration)
             r == tick(s.tweens[s.index + 1], delta)
             completed == r.state = "Completed"
             index1 == IF completed THEN s.index + 1 ELSE s.index
             done == completed /\ index1 >= Len(s.tweens)
         IN [tw |-> [s EXCEPT !.time = time1,
                              !.tweens[s.index + 1] =
                                  IF completed THEN rewind(r.tw) ELSE r.tw,
                              !.index = index1,
                              !.times_completed = IF done THEN 1 ELSE @],
             state |-> IF done THEN "Completed" ELSE "Active",
             log |-> r.log]
    ELSE [tw |-> rewind(s), state |-> "Active", log |-> <<>>]

\* the sequence reports the state of the child it ticked
Sequence_tick_child_state(s, delta) ==
    IF s.index < Len(s.tweens)
    THEN LET time1 == Min(s.time + delta, s.duration)
             r == tick(s.tweens[s.index + 1], delta)
             completed == r.state = "Completed"
         IN [tw |-> [s EXCEPT !.time = time1,
                              !.tweens[s.index + 1] =
                                  IF completed THEN rewind(r.tw) ELSE r.tw,
                              !.index = IF completed THEN @ + 1 ELSE @,
                              !.times_completed = IF completed THEN 1 ELSE @],
             state |-> r.state,
             log |-> r.log]
    ELSE [tw |-> s, state |-> "Completed", log |-> <<>>]

Sequence_tick(s, delta) ==
    IF s.index < Len(s.tweens)
    THEN LET time1 == Min(s.time + delta, s.duration)
             r == tick(s.tweens[s.index + 1], delta)
             completed == r.state = "Completed"
             index1 == IF completed THEN s.index + 1 ELSE s.index
             done == completed /\ index1 >= Len(s.tweens)
         IN [tw |-> [s EXCEPT !.time = time1,
                              !.tweens[s.index + 1] =
                                  IF completed THEN rewind(r.tw) ELSE r.tw,
                              !.index = index1,
                              !.times_completed = IF done THEN 1 ELSE @],
             state |-> IF done THEN "Completed" ELSE "Active",
             log |-> r.log]
    ELSE [tw |-> s, state |-> "Completed", log |-> <<>>]

Sequence_rewind(s) ==
    [s EXCEPT !.time = 0, !.index = 0, !.times_completed = 0,
              !.tweens = [i \in 1..Len(s.tweens) |-> rewind(s.tweens[i])]]

----------------------------------------------------------------------------
(* Tracks *)

Tracks_new(items) ==
    [kind |-> "Tracks", tracks |-> items,
     duration |-> MaxDurations(items), time |-> 0, times_completed |-> 0]

Tracks_set_progress(s, p) ==
    LET progress0 == RMax0(p)
        progress1 == RFract(progress0)
    IN [s EXCEPT !.times_completed = RTrunc(progress0),
                 !.time = ScaleDuration(s.duration, progress1)]

\* the for loop of Tracks::tick from child i (1-based) on
RECURSIVE Tracks_tick_loop_last(_, _, _, _, _)
\* the state of the last track decides, instead of the disjunction
Tracks_tick_loop_last(tracks, i, delta, any_active, log) ==
    IF i > Len(tracks)
    THEN [tracks |-> tracks, any_active |-> any_active, log |-> log]
    ELSE LET r == tick(tracks[i], delta) IN
         Tracks_tick_loop_last([tracks EXCEPT ![i] = r.tw], i + 1, delta,
                               r.state = "Active", log \o r.log)

Tracks_tick_loop(tracks, i, delta, any_active, log) ==
    IF i > Len(tracks)
    THEN [tracks |-> tracks, any_active |-> any_active, log |-> log]
    ELSE LET r == tick(tracks[i], delta) IN
         Tracks_tick_loop([tracks EXCEPT ![i] = r.tw], i + 1, delta,
                          any_active \/ r.state = "Active", log \o r.log)

Tracks_tick(s, delta) ==
    LET time1 == Min(s.time + delta, s.duration)
        r == Tracks_tick_loop(s.tracks, 1, delta, FALSE, <<>>)
    IN [tw |-> [s EXCEPT !.time = time1, !.tracks = r.tracks],
        state |-> IF r.any_active THEN "Active" ELSE "Completed",
        log |-> r.log]

Tracks_rewind(s) ==
    [s EXCEPT !.time = 0, !.times_completed = 0,
              !.tracks = [i \in 1..Len(s.tracks) |-> rewind(s.tracks[i])]]

----------------------------------------------------------------------------
(* impl Tweenable for Box<dyn Tweenable> *)

set_progress(t, p) ==
    CASE t.kind = "Tween" -> Tween_set_progress(t, p)
      [] t.kind = "Delay" -> Delay_set_progress(t, p)
      [] t.kind = "Sequence" -> Sequence_set_progress(t, p)
      [] OTHER -> Tracks_set_progress(t, p)

tick(t, delta) ==
    CASE t.kind = "Tween" -> Tween_tick(t, delta)
      [] t.kind = "Delay" -> Delay_tick(t, delta)
      [] t.kind = "Sequence" -> Sequence_tick(t, delta)
      [] OTHER -> Tracks_tick(t, delta)

rewind(t) ==
    CASE t.kind = "Tween" -> Tween_rewind(t)
      [] t.kind = "Delay" -> Delay_rewind(t)
      [] t.kind = "Sequence" -> Sequence_rewind(t)
      [] OTHER -> Tracks_rewind(t)

----------------------------------------------------------------------------
(* The tweenables the driver constructs *)

TweeningTypes == {"Once", "Loop", "PingPong"}
Lenses == {"pos", "rot", "scale"}

\* a tween with a completion callback and the completion event enabled
Monitored(t) == set_completed(with_completed_event(t, TRUE))

OnceTween(d, lens) == Monitored(Tween_new("Linear", "Once", d, lens))

FreshTweens ==
    {Monitored(Tween_new(e, ty, d, "pos")) :
        e \in {"Linear", "QuadraticIn"}, ty \in TweeningTypes, d \in Durations}
    \cup {Tween_new("Linear", ty, 2, "pos") : ty \in TweeningTypes}

FreshDelays == {Delay_new(d) : d \in Durations}

FirstChildren ==
    {OnceTween(d, "pos") : d \in Durations}
    \cup {Delay_new(2), Monitored(Tween_new("Linear", "PingPong", 2, "pos"))}

SecondChildren ==
    {OnceTween(d, "rot") : d \in Durations}
    \cup {Delay_new(3), Monitored(Tween_new("Linear", "Loop", 2, "rot"))}

FreshSequences ==
    {Sequence_from_single(OnceTween(2, "pos"))}
    \cup {IF a.kind = "Delay" THEN Delay_then(a, b) ELSE Tween_then(a, b) :
            a \in FirstChildren, b \in SecondChildren}
    \cup {Sequence_new(<<OnceTween(2, "pos"), Delay_new(2), OnceTween(3, "rot")>>)}

FreshTracks ==
    {Tracks_new(<<OnceTween(3, "pos")>>)}
    \cup {Tracks_new(<<a, b>>) : a \in FirstChildren, b \in SecondChildren}

FreshNested ==
    {Sequence_new(<<Tracks_new(<<OnceTween(2, "pos"), OnceTween(3, "rot")>>),
                    OnceTween(2, "scale")>>),
     Tracks_new(<<Tween_then(OnceTween(2, "pos"), OnceTween(2, "rot")),
                  OnceTween(3, "scale")>>),
     Sequence_then(Tween_then(OnceTween(2, "pos"), OnceTween(3, "rot")),
                   Delay_then(Delay_new(2), OnceTween(2, "scale")))}

FreshFlat == FreshTweens \cup FreshDelays \cup FreshSequences \cup FreshTracks

Fresh == FreshFlat \cup FreshNested

----------------------------------------------------------------------------
(* The driver *)

RECURSIVE Apply(_, _)
RECURSIVE Monitor(_, _)
RECURSIVE Completions(_)
RECURSIVE CompletionsOf(_)

\* the largest times_completed in the tree of t
Completions(t) ==
    CASE t.kind = "Sequence" -> Max(t.times_completed, CompletionsOf(t.tweens))
      [] t.kind = "Tracks" -> Max(t.times_completed, CompletionsOf(t.tracks))
      [] OTHER -> times_completed(t)

CompletionsOf(items) ==
    IF items = <<>> THEN 0
    ELSE Max(Completions(Head(items)), CompletionsOf(Tail(items)))

\* the lens writes of a call, in order, onto the target
Apply(tgt, log) ==
    IF log = <<>> THEN tgt
    ELSE Apply(IF Head(log).eff = "lerp"
               THEN [tgt EXCEPT ![Head(log).who] = Head(log).arg] ELSE tgt,
               Tail(log))

\* the callback of the tests: invoke_count += 1; last_reported_count =
\* tween.times_completed()
Monitor(mon, log) ==
    IF log = <<>> THEN mon
    ELSE Monitor(IF Head(log).eff = "callback"
                 THEN [invoke_count |-> mon.invoke_count + 1,
                       last_reported_count |-> Head(log).arg[1]]
                 ELSE mon,
                 Tail(log))

NoCalls == [invoke_count |-> 0, last_reported_count |-> 0]

InitOf(fresh) ==
    /\ tw \in fresh
    /\ target = [l \in Lenses |-> <<0, 1>>]
    /\ last = [op |-> "new", p |-> <<0, 1>>, state |-> "None", log |-> <<>>]
    /\ seeked = FALSE
    /\ total = 0
    /\ used = {}
    /\ ended = FALSE
    /\ cb_mon = NoCalls

Tick ==
    \E delta \in Deltas :
        /\ total + delta <= MaxTotal
        /\ LET r == tick(tw, delta) IN
            /\ Completions(r.tw) <= MaxCompleted
            /\ tw' = r.tw
            /\ target' = Apply(target, r.log)
            /\ last' = [op |-> IF delta = 0 THEN "tick0" ELSE "tick",
                        p |-> <<0, 1>>, state |-> r.state, log |-> r.log]
            /\ cb_mon' = IF seeked THEN NoCalls ELSE Monitor(cb_mon, r.log)
            /\ ended' = IF seeked THEN FALSE ELSE ended \/ r.state = "Completed"
        /\ total' = IF seeked THEN 0 ELSE total + delta
        /\ used' = IF seeked THEN {} ELSE used \cup {delta}
        /\ UNCHANGED seeked

\* Duration::from_secs_f64 panics on a negative value: a Tween or a Delay is
\* only handed p >= 0
SetProgress ==
    \E p \in Progresses :
        /\ tw.kind \in {"Tween", "Delay"} => p[1] >= 0
        /\ tw' = set_progress(tw, p)
        /\ last' = [op |-> "set_progress", p |-> p, state |-> "None", log |-> <<>>]
        /\ seeked' = TRUE
        /\ total' = 0
        /\ used' = {}
        /\ ended' = FALSE
        /\ cb_mon' = NoCalls
        /\ UNCHANGED target

\* the driver starts a new monitor with the rewound tweenable
Rewind ==
    /\ tw' = rewind(tw)
    /\ last' = [op |-> "rewind", p |-> <<0, 1>>, state |-> "None", log |-> <<>>]
    /\ seeked' = FALSE
    /\ total' = 0
    /\ used' = {}
    /\ ended' = FALSE
    /\ cb_mon' = NoCalls
    /\ UNCHANGED target

\* ticks only, from the freshly constructed state
InitTick == InitOf(Fresh)
NextTick == Tick
SpecTick == InitTick /\ [][NextTick]_vars

\* ticks and rewinds
InitRewind == InitOf(Fresh)
NextRewind == Tick \/ Rewind
SpecRewind == InitRewind /\ [][NextRewind]_vars

\* any interleaving of tick, set_progress and rewind
Init == InitOf(FreshFlat)
Next == Tick \/ SetProgress \/ Rewind
Spec == Init /\ [][Next]_vars

----------------------------------------------------------------------------
(* Properties *)

IsTween(t) == t.kind = "Tween"
IsOnceTween(t) == t.kind = "Tween" /\ t.tweening_type = "Once"
IsLoopingTween(t) == t.kind = "Tween" /\ t.tweening_type # "Once"
Ticked == last.op \in {"tick", "tick0"}
One == <<1, 1>>

\* the lens applications among the effects of a call
Lerps(log) == SelectSeq(log, LAMBDA e : e.eff = "lerp")

RECURSIVE NonLooping(_)
\* a Once Tween, a Delay, or a Sequence or Tracks of such tweenables
NonLooping(t) ==
    CASE t.kind = "Tween" -> t.tweening_type = "Once"
      [] t.kind = "Delay" -> TRUE
      [] t.kind = "Sequence" ->
            \A i \in 1..Len(t.tweens) : NonLooping(t.tweens[i])
      [] OTHER -> \A i \in 1..Len(t.tracks) : NonLooping(t.tracks[i])

\* C1: a Once Tween of duration D ticked from its freshly constructed state
\* returns Active on every tick before the cumulative delta reaches D; the
\* tick at which it first reaches D returns Completed with progress() == 1
\* and times_completed() == 1; every later tick returns Completed, invokes no
\* callback, emits no event, applies no lens and leaves the tween unchanged.
C1_OnceTweenCompletes ==
    [][(IsOnceTween(tw) /\ ~seeked /\ Ticked') =>
          /\ (total' < duration(tw) => last'.state = "Active")
          /\ (total < duration(tw) /\ total' >= duration(tw) =>
                /\ last'.state = "Completed"
                /\ RIsOne(progress(tw'))
                /\ times_completed(tw') = 1)
          /\ (total >= duration(tw) =>
                /\ last'.state = "Completed"
                /\ last'.log = <<>>
                /\ tw' = tw
                /\ target' = target
                /\ cb_mon' = cb_mon)]_vars

\* a finished Once Tween was ticked again, with a positive delta
C1_Witness ==
    /\ IsOnceTween(tw) /\ ~seeked
    /\ last.op = "tick" /\ last.state = "Completed" /\ last.log = <<>>
    /\ total > duration(tw)
    /\ cb_mon.invoke_count = 1

\* C2: a PingPong Tween of duration D ticked from its freshly constructed
\* state: after every tick the direction is Forward exactly when
\* floor(total / D) is even, and times_completed() == floor(total / D).
C2_PingPongDirection ==
    (IsTween(tw) /\ tw.tweening_type = "PingPong" /\ ~seeked /\ Ticked) =>
        /\ (tw.direction = "Forward") <=> ((total \div duration(tw)) % 2 = 0)
        /\ times_completed(tw) = total \div duration(tw)

\* C3: a Tween with a completion callback, ticked only: the number of callback
\* invocations so far equals times_completed(), and each invocation observes
\* times_completed() equal to the number of invocations made so far.
C3_CallbackPerCompletion ==
    (IsTween(tw) /\ tw.on_completed /\ ~seeked) =>
        /\ cb_mon.invoke_count = times_completed(tw)
        /\ cb_mon.last_reported_count = cb_mon.invoke_count

\* C4: rewind() leaves a Tween with elapsed time zero, times_completed() == 0,
\* direction() == Forward and progress() == 0, callback and event flag
\* untouched; a following zero-delta tick returns Active and applies the lens
\* with the factor for progress 0.
C4_RewindResetsTween ==
    [][/\ (IsTween(tw) /\ last'.op = "rewind") =>
            /\ tw'.timer.elapsed = 0
            /\ times_completed(tw') = 0
            /\ tw'.direction = "Forward"
            /\ RIsZero(progress(tw'))
            /\ tw'.on_completed = tw.on_completed
            /\ tw'.raise_event = tw.raise_event
       /\ (IsTween(tw) /\ last.op = "rewind" /\ last'.op = "tick0") =>
            /\ last'.state = "Active"
            /\ Len(Lerps(last'.log)) = 1
            /\ Lerps(last'.log)[1].who = tw.lens
            /\ RIsZero(Lerps(last'.log)[1].arg)
            /\ RIsZero(target'[tw.lens])]_vars

\* C5: a non-looping tweenable driven only by tick from its freshly
\* constructed state with positive deltas: tick returns Active exactly when
\* progress() < 1 after that tick and Completed exactly when progress() == 1.
C5_StateMatchesProgress ==
    (NonLooping(tw) /\ ~seeked /\ last.op = "tick" /\ 0 \notin used) =>
        /\ (last.state = "Active") <=> RLt(progress(tw), One)
        /\ (last.state = "Completed") <=> RIsOne(progress(tw))

\* C6: a non-looping tweenable kind driven only by tick from a freshly
\* constructed or rewound state: times_completed() is 0 as long as every tick
\* so far returned Active and 1 from the first Completed tick onward.
C6_TimesCompletedOfOneShot ==
    (~IsLoopingTween(tw) /\ ~seeked) =>
        times_completed(tw) = IF ended THEN 1 ELSE 0

\* C7: Tracks::set_progress(p) clamps p below at 0, sets times_completed to
\* the integer part of p and the aggregate time to duration * min(p, 1), so
\* that any p >= 1 yields progress() == 1, and changes no child.
C7_TracksSetProgress ==
    [][(tw.kind = "Tracks" /\ last'.op = "set_progress") =>
          LET p0 == RMax0(last'.p) IN
          /\ times_completed(tw') = RTrunc(p0)
          /\ tw'.time = ScaleDuration(tw.duration, RMin1(p0))
          /\ (~RLt(p0, One) => RIsOne(progress(tw')))
          /\ tw'.tracks = tw.tracks]_vars

\* p is in [0, 1] for a Once Tween, in [0, 1) for a looping one
InRange(t, p) ==
    /\ p[1] >= 0
    /\ IF t.tweening_type = "Once" THEN p[1] <= p[2] ELSE p[1] < p[2]

\* C8: set_progress(p) on a Tween, p in range, applies no lens, invokes no
\* callback, emits no event and changes neither times_completed nor the
\* direction; the immediately following zero-delta tick applies the lens
\* exactly once, with the factor ease(progress()) of the position just set.
C8_SetProgressThenZeroTick ==
    [][/\ (IsTween(tw) /\ last'.op = "set_progress" /\ InRange(tw, last'.p)) =>
            /\ last'.log = <<>>
            /\ target' = target
            /\ times_completed(tw') = times_completed(tw)
            /\ tw'.direction = tw.direction
       /\ (IsTween(tw) /\ last.op = "set_progress" /\ InRange(tw, last.p)
             /\ last'.op = "tick0") =>
            Lerps(last'.log) =
                <<Lerp(tw.lens, Sample(tw.ease_function, progress(tw)))>>]_vars

\* C9: a looping Tween reachable from construction by ticks has progress()
\* in [0, 1), never exactly 1.
C9_LoopingProgressBelowOne ==
    (IsLoopingTween(tw) /\ ~seeked) =>
        progress(tw)[1] >= 0 /\ RLt(progress(tw), One)

\* C10: in every state of a Sequence reachable by tick, set_progress and
\* rewind, times_completed() is 0 or 1.
C10_SequenceCompletedAtMostOnce ==
    tw.kind = "Sequence" => times_completed(tw) \in {0, 1}

\* C11: a Loop Tween of duration D > 0 ticked from its freshly constructed
\* state with any non-negative deltas, also deltas above D: after every tick
\* the timer position is total mod D, times_completed() is floor(total / D)
\* and the direction is still Forward.
C11_LoopWraps ==
    (IsTween(tw) /\ tw.tweening_type = "Loop" /\ ~seeked /\ Ticked) =>
        /\ tw.timer.elapsed = total % duration(tw)
        /\ times_completed(tw) = total \div duration(tw)
        /\ tw.direction = "Forward"

\* a Loop Tween was ticked with a delta spanning two periods at once
C11_Witness ==
    /\ IsTween(tw) /\ tw.tweening_type = "Loop" /\ ~seeked
    /\ last.op = "tick"
    /\ \E d \in used : d >= 2 * duration(tw)
    /\ times_completed(tw) >= 2
    /\ tw.timer.elapsed > 0

\* C12: a Loop or PingPong Tween never returns Completed from tick, in any
\* state reachable by tick, set_progress and rewind; only a Once Tween can.
C12_LoopingNeverCompleted ==
    (IsLoopingTween(tw) /\ Ticked) => last.state = "Active"

\* a looping Tween, seeked before, finished a period on the last tick
C12_Witness ==
    /\ IsLoopingTween(tw) /\ seeked
    /\ last.op = "tick" /\ last.state = "Active"
    /\ TimerJustFinished(tw.timer)
    /\ times_completed(tw) >= 1

\* ceil(a / b) for b > 0
Ceil(a, b) == (a + b - 1) \div b

RECURSIVE SumCeil(_, _)
\* sum over the children of ceil(duration / delta)
SumCeil(tweens, delta) ==
    IF tweens = <<>> THEN 0
    ELSE Ceil(duration(Head(tweens)), delta) + SumCeil(Tail(tweens), delta)

\* every child is a Once Tween
AllOnceTweens(tweens) == \A i \in 1..Len(tweens) : IsOnceTween(tweens[i])

\* C13: a Sequence of n non-looping children ticked from its freshly
\* constructed state plays the children in order: a tick goes to the child at
\* the index and to no other child, the index moves on by one exactly when
\* that child returned Completed, tick returns Completed exactly on the tick
\* in which child n-1 returns Completed and Active before; for Once Tween
\* children ticked with a constant delta the first Completed tick is tick
\* number sum_i ceil(d_i / delta).
C13_SequenceInOrder ==
    [][(tw.kind = "Sequence" /\ NonLooping(tw) /\ ~seeked /\ Ticked') =>
          LET n == Len(tw.tweens)
              k == tw.index
              delta == total' - total
          IN /\ k < n =>
                   LET r == tick(tw.tweens[k + 1], delta) IN
                   /\ \A j \in 1..n : j # k + 1 => tw'.tweens[j] = tw.tweens[j]
                   /\ tw'.index = IF r.state = "Completed" THEN k + 1 ELSE k
                   /\ last'.log = r.log
                   /\ (last'.state = "Completed") <=>
                          (r.state = "Completed" /\ k = n - 1)
                   /\ last'.state \in {"Active", "Completed"}
                   /\ ~ended
             /\ k >= n => ended /\ last'.state = "Completed"
             /\ \A d \in Deltas \ {0} :
                   (AllOnceTweens(tw.tweens) /\ used' = {d}) =>
                       (ended' <=> total' \div d >= SumCeil(tw.tweens, d))]_vars

\* children of 2 and 3 time units ticked by 2 each time: the third tick is
\* the first to return Completed
C13_Witness ==
    /\ tw.kind = "Sequence" /\ AllOnceTweens(tw.tweens) /\ ~seeked
    /\ Len(tw.tweens) = 2 /\ duration(tw.tweens[2]) = 3
    /\ used = {2} /\ total = 6
    /\ last.op = "tick" /\ last.state = "Completed"
    /\ tw.index = 2

RECURSIVE MaxCeil(_, _)
\* maximum over the children of ceil(duration / delta)
MaxCeil(tweens, delta) ==
    IF tweens = <<>> THEN 0
    ELSE Max(Ceil(duration(Head(tweens)), delta), MaxCeil(Tail(tweens), delta))

RECURSIVE ChildLogs(_, _)
\* the effects of ticking every child by delta, in the order of the children
ChildLogs(tweens, delta) ==
    IF tweens = <<>> THEN <<>>
    ELSE tick(Head(tweens), delta).log \o ChildLogs(Tail(tweens), delta)

\* C14: Tracks::tick forwards the same delta to every child on every tick,
\* also to children that already completed, and returns Completed exactly
\* when every child returned Completed in that tick, Active otherwise; for
\* Once Tween children ticked from fresh with a constant delta the first
\* Completed tick is tick number max_i ceil(d_i / delta), and a child that
\* finished earlier stays at its end state.
C14_TracksTickAll ==
    [][(tw.kind = "Tracks" /\ Ticked') =>
          LET n == Len(tw.tracks)
              delta == total' - total
          IN /\ \A i \in 1..n : tw'.tracks[i] = tick(tw.tracks[i], delta).tw
             /\ last'.log = ChildLogs(tw.tracks, delta)
             /\ (last'.state = "Completed") <=>
                    \A i \in 1..n : tick(tw.tracks[i], delta).state = "Completed"
             /\ (last'.state = "Active") <=>
                    \E i \in 1..n : tick(tw.tracks[i], delta).state = "Active"
             /\ \A d \in Deltas \ {0} :
                   (AllOnceTweens(tw.tracks) /\ used' = {d}) =>
                       (ended' <=> total' \div d >= MaxCeil(tw.tracks, d))
             /\ \A i \in 1..n :
                   (IsOnceTween(tw.tracks[i]) /\ tw.tracks[i].timer.finished) =>
                       /\ tw'.tracks[i] = tw.tracks[i]
                       /\ RIsOne(progress(tw'.tracks[i]))
                       /\ target'[tw.tracks[i].lens] = target[tw.tracks[i].lens]
                       /\ RIsOne(target[tw.tracks[i].lens])]_vars

\* tracks of 2 and 3 time units ticked by 2 each time: the first child
\* finished on the first tick and was ticked again, the second tick is the
\* first to return Completed
C14_Witness ==
    /\ tw.kind = "Tracks" /\ AllOnceTweens(tw.tracks)
    /\ Len(tw.tracks) = 2
    /\ duration(tw.tracks[1]) = 2 /\ duration(tw.tracks[2]) = 3
    /\ used = {2} /\ total = 4
    /\ last.op = "tick" /\ last.state = "Completed"
    /\ RIsOne(target["pos"]) /\ RIsOne(target["rot"])

\* C15: once Sequence::tick has returned Completed, the next tick, with any
\* delta and with no rewind or set_progress in between, returns Completed
\* again, leaves the time, the index, times_completed, every child and the
\* target unchanged, emits no event and invokes no callback.
C15_CompletedSequenceStays ==
    [][(tw.kind = "Sequence" /\ Ticked /\ last.state = "Completed" /\ Ticked') =>
          /\ last'.state = "Completed"
          /\ tw'.time = tw.time
          /\ tw'.index = tw.index
          /\ times_completed(tw') = times_completed(tw)
          /\ tw'.tweens = tw.tweens
          /\ tw' = tw
          /\ target' = target
          /\ last'.log = <<>>]_vars

\* a completed Sequence of Once Tweens was ticked again by a positive delta
C15_Witness ==
    /\ tw.kind = "Sequence" /\ AllOnceTweens(tw.tweens)
    /\ last.op = "tick" /\ last.state = "Completed" /\ last.log = <<>>
    /\ tw.index = Len(tw.tweens)
    /\ times_completed(tw) = 1

RECURSIVE TimeState(_)
\* the time state of a tweenable and of all its children: timer position,
\* aggregate time, index, direction and times_completed
TimeState(t) ==
    CASE t.kind = "Tween" ->
            [elapsed |-> t.timer.elapsed, direction |-> t.direction,
             times_completed |-> times_completed(t), children |-> <<>>]
      [] t.kind = "Delay" ->
            [elapsed |-> t.timer.elapsed,
             times_completed |-> times_completed(t), children |-> <<>>]
      [] t.kind = "Sequence" ->
            [time |-> t.time, index |-> t.index,
             times_completed |-> times_completed(t),
             children |-> [i \in 1..Len(t.tweens) |-> TimeState(t.tweens[i])]]
      [] OTHER ->
            [time |-> t.time, times_completed |-> times_completed(t),
             children |-> [i \in 1..Len(t.tracks) |-> TimeState(t.tracks[i])]]

\* no completion event and no callback among the effects of a call
NoCompletionEffects(log) == \A i \in 1..Len(log) : log[i].eff = "lerp"

\* C16: for every tweenable kind in every state reachable by tick,
\* set_progress and rewind, a tick with delta zero leaves all time state
\* unchanged (timer position, aggregate time, Sequence index, direction,
\* times_completed of the tweenable and of all its children), emits no
\* completion event and invokes no callback.
C16_ZeroTickKeepsTimeState ==
    [][last'.op = "tick0" =>
          /\ TimeState(tw') = TimeState(tw)
          /\ NoCompletionEffects(last'.log)]_vars

RECURSIVE Prefix(_, _)
\* the durations of the first k children, added up
Prefix(tweens, k) ==
    IF k = 0 THEN 0 ELSE Prefix(tweens, k - 1) + duration(tweens[k])

\* the local position of a child: timer position of a leaf, aggregate time
\* of a composite
Position(t) == IF t.kind \in {"Tween", "Delay"} THEN t.timer.elapsed ELSE t.time

RECURSIVE FreshOf(_)
\* the tweenable as its constructors made it: same shape, lenses, callbacks
\* and event flags, nothing played yet
FreshOf(t) ==
    CASE t.kind = "Tween" ->
            LET fresh == with_completed_event(
                             Tween_new(t.ease_function, t.tweening_type,
                                       t.timer.duration, t.lens),
                             t.raise_event)
            IN IF t.on_completed THEN set_completed(fresh) ELSE fresh
      [] t.kind = "Delay" -> Delay_new(t.timer.duration)
      [] t.kind = "Sequence" ->
            Sequence_new([i \in 1..Len(t.tweens) |-> FreshOf(t.tweens[i])])
      [] OTHER ->
            Tracks_new([i \in 1..Len(t.tracks) |-> FreshOf(t.tracks[i])])

\* C18: after rewind() on a Sequence or Tracks in any state reachable by tick
\* and set_progress, the whole composite tree is fully reset: it is in the
\* state of a freshly constructed composite, so that any subsequent ticks
\* give the same return states, progress(), times_completed(), child
\* directions and lens factors as on a fresh instance.
C18_RewindResetsComposite ==
    (tw.kind \in {"Sequence", "Tracks"} /\ last.op = "rewind") =>
        tw = FreshOf(tw)

RECURSIVE DurationOK(_)
\* in the whole tree, the duration of a Sequence is the sum and the duration
\* of a Tracks the maximum of the durations of the children
DurationOK(t) ==
    CASE t.kind = "Sequence" ->
            /\ duration(t) = Prefix(t.tweens, Len(t.tweens))
            /\ \A i \in 1..Len(t.tweens) : DurationOK(t.tweens[i])
      [] t.kind = "Tracks" ->
            /\ \E i \in 1..Len(t.tracks) : duration(t) = duration(t.tracks[i])
            /\ \A i \in 1..Len(t.tracks) :
                  duration(t) >= duration(t.tracks[i]) /\ DurationOK(t.tracks[i])
      [] OTHER -> TRUE

\* C19: the duration of a Sequence is the sum of the durations of its
\* children after Sequence::new, Sequence::from_single and every then()
\* (Tween::then and Delay::then too), the duration of a Tracks is the
\* maximum of the durations of its children, and neither is changed by
\* tick, set_progress or rewind.
C19_AggregateDuration ==
    [][/\ DurationOK(tw)
       /\ DurationOK(tw')
       /\ duration(tw') = duration(tw)]_vars

\* a Sequence made by Delay::then, of 2 + 3 time units, seeked and ticked
\* into its second child
C19_Witness ==
    /\ tw.kind = "Sequence" /\ Len(tw.tweens) = 2
    /\ tw.tweens[1].kind = "Delay"
    /\ duration(tw.tweens[1]) = 2 /\ duration(tw.tweens[2]) = 3
    /\ duration(tw) = 5
    /\ seeked /\ last.op = "tick" /\ tw.index = 1

\* C20: a Delay of duration D > 0 ticked from a fresh or rewound state returns
\* Active while the cumulative delta is below D and Completed on every tick
\* from the one at which the cumulative delta reaches D onward; it never
\* changes the target, never emits an event, and times_completed() is 1
\* exactly when the timer is finished and 0 otherwise.
C20_DelayCompletes ==
    [][(tw.kind = "Delay" /\ ~seeked /\ Ticked') =>
          /\ (last'.state = "Active") <=> (total' < duration(tw))
          /\ (last'.state = "Completed") <=> (total' >= duration(tw))
          /\ last'.log = <<>>
          /\ target' = target
          /\ cb_mon' = cb_mon
          /\ tw'.timer.finished <=> (total' >= duration(tw))
          /\ (times_completed(tw') = 1) <=> tw'.timer.finished
          /\ (times_completed(tw') = 0) <=> ~tw'.timer.finished]_vars

\* a Delay was ticked up to its duration and then again
C20_Witness ==
    /\ tw.kind = "Delay" /\ ~seeked
    /\ last.op = "tick" /\ last.state = "Completed"
    /\ total > duration(tw)
    /\ Cardinality(used) >= 2
    /\ times_completed(tw) = 1

\* C21: on every Tween::tick that is not the early return of a finished Once
\* Tween, the lens is applied exactly once, with the factor ease(progress())
\* for progress() as it is after the timer was advanced and the PingPong
\* direction flipped; the tick that returns Completed for a Once Tween
\* applies the lens at progress 1, and a PingPong tick that crosses the end
\* applies it with the flipped direction.
C21_LensOncePerTick ==
    [][(IsTween(tw) /\ Ticked' /\ ~(IsOnceTween(tw) /\ tw.timer.finished)) =>
          LET factor == Sample(tw.ease_function, progress(tw')) IN
          /\ Lerps(last'.log) = <<Lerp(tw.lens, factor)>>
          /\ target'[tw.lens] = factor
          /\ last'.state = "Completed" =>
                (RIsOne(progress(tw')) /\ RIsOne(factor))
          /\ (tw.tweening_type = "PingPong" /\ TimerJustFinished(tw'.timer)) =>
                /\ tw'.direction = Flip(tw.direction)
                /\ factor = Sample(tw.ease_function,
                                   IF tw.direction = "Forward"
                                   THEN TimerPercentLeft(tw'.timer)
                                   ELSE TimerPercent(tw'.timer))]_vars

\* a PingPong Tween crossed its end in the middle of a tick and the lens was
\* applied for the way back
C21_Witness ==
    /\ IsTween(tw) /\ tw.tweening_type = "PingPong"
    /\ last.op = "tick" /\ TimerJustFinished(tw.timer)
    /\ tw.direction = "Backward" /\ tw.timer.elapsed > 0
    /\ Len(Lerps(last.log)) = 1
    /\ target[tw.lens] = Sample(tw.ease_function, TimerPercentLeft(tw.timer))

\* q is p up to the resolution of a timer of duration d: |q - p| < 1 / d
Near(q, p, d) ==
    LET diff == q[1] * p[2] - p[1] * q[2]
        abs == IF diff < 0 THEN 0 - diff ELSE diff
    IN abs * d < q[2] * p[2]

\* C22: round trip of set_progress and progress on a Tween: for a Tween of
\* any TweeningType in any state reached by ticks, a PingPong Tween whose
\* direction is Backward included, and any p in [0, 1), progress() returns p
\* immediately after set_progress(p).
C22_SetProgressRoundTrip ==
    [][(IsTween(tw) /\ ~seeked /\ last'.op = "set_progress"
          /\ last'.p[1] >= 0 /\ last'.p[1] < last'.p[2]) =>
          Near(progress(tw'), last'.p, duration(tw))]_vars

\* C23: each Sequence::tick forwards the delta to exactly one child, the
\* child at the index before the tick, and leaves every other child as it
\* was; the index grows by at most 1 per tick, so what a delta has in excess
\* of the current child's remaining time is not carried over to the next
\* child, and a Sequence of n children returns Completed after n ticks at the
\* earliest, whatever the deltas.
C23_OneChildPerTick ==
    [][(tw.kind = "Sequence" /\ Ticked') =>
          LET n == Len(tw.tweens)
              k == tw.index
          IN /\ tw'.index \in {k, k + 1}
             /\ k < n =>
                   /\ \A j \in 1..n : j # k + 1 => tw'.tweens[j] = tw.tweens[j]
                   /\ \E delta \in Deltas :
                         LET r == tick(tw.tweens[k + 1], delta) IN
                         /\ (delta = 0) <=> (last'.op = "tick0")
                         /\ ~seeked => delta = total' - total
                         /\ last'.log = r.log
                         /\ tw'.tweens[k + 1] =
                               IF r.state = "Completed" THEN rewind(r.tw) ELSE r.tw
                         /\ tw'.index = IF r.state = "Completed" THEN k + 1 ELSE k
             /\ (last.op = "new" /\ n >= 2) => last'.state = "Active"
             /\ \A d \in Deltas \ {0} :
                   (~seeked /\ used' = {d} /\ ended') => total' \div d >= n]_vars

\* a fresh Sequence of two children got one tick far beyond its duration:
\* the first child is done, the second is still where it started
C23_Witness ==
    /\ tw.kind = "Sequence" /\ Len(tw.tweens) = 2 /\ ~seeked
    /\ used = {MaxDelta} /\ total = MaxDelta /\ MaxDelta > duration(tw)
    /\ last.op = "tick" /\ last.state = "Active"
    /\ tw.index = 1
    /\ Position(tw.tweens[2]) = 0

\* every child is a Once Tween or a Delay
OnceTweensAndDelays(tweens) ==
    \A i \in 1..Len(tweens) : IsOnceTween(tweens[i]) \/ tweens[i].kind = "Delay"

\* C24: in every state of a Sequence of Once Tweens and Delays reachable by
\* any interleaving of tick, set_progress and rewind, exhaustion implies full
\* elapsed time: whenever the index equals the child count, the aggregate
\* time equals the duration, i.e. progress() == 1.
C24_ExhaustedMeansFullTime ==
    (tw.kind = "Sequence" /\ OnceTweensAndDelays(tw.tweens)
       /\ tw.index = Len(tw.tweens)) =>
        (tw.time = duration(tw) /\ RIsOne(progress(tw)))

InitFixed ==
    /\ tw \in {t \in Fresh : NonLooping(t)}
    /\ target = [l \in Lenses |-> <<0, 1>>]
    /\ last = [op |-> "new", p |-> <<0, 1>>, state |-> "None", log |-> <<>>]
    /\ seeked = FALSE
    /\ total = 0
    /\ used \in {{d} : d \in Deltas \ {0}}
    /\ ended = FALSE
    /\ cb_mon = NoCalls

TickFixed ==
    \E delta \in used :
        /\ total < MaxLiveTicks * delta
        /\ LET r == tick(tw, delta) IN
            /\ tw' = r.tw
            /\ target' = Apply(target, r.log)
            /\ last' = [op |-> "tick", p |-> <<0, 1>>,
                        state |-> r.state, log |-> r.log]
            /\ cb_mon' = Monitor(cb_mon, r.log)
            /\ ended' = (ended \/ r.state = "Completed")
        /\ total' = total + delta
        /\ UNCHANGED <<seeked, used>>

NextFixed == TickFixed

\* a frame passes: the time ticked so far grows by the fixed delta; every
\* step of TickFixed is such a step, and one is possible whenever TickFixed is
Frame ==
    \E delta \in used : total < MaxLiveTicks * delta /\ total' = total + delta

\* the driver ticks once per frame, as long as there are frames
SpecFixed == InitFixed /\ [][NextFixed]_vars /\ WF_total(Frame)

\* C26: a tweenable built only from Once Tweens and Delays of positive
\* duration, composed with Sequence and Tracks, and ticked repeatedly with a
\* fixed positive delta from its freshly constructed state, eventually
\* returns Completed, and from then on returns Completed on every tick.
C26_EventuallyCompleted ==
    <>[](last.op = "tick" /\ last.state = "Completed")

\* a Sequence with a composite among its children has completed and was
\* ticked again
C26_Witness ==
    /\ tw.kind = "Sequence"
    /\ \E i \in 1..Len(tw.tweens) : tw.tweens[i].kind \in {"Sequence", "Tracks"}
    /\ last.op = "tick" /\ last.state = "Completed" /\ last.log = <<>>
    /\ ended /\ total > duration(tw)

\* the positions of the looping Tweens among the children
LoopingAt(tweens) == {i \in 1..Len(tweens) : IsLoopingTween(tweens[i])}

\* C27: a composite that contains a looping (Loop or PingPong) Tween never
\* completes by ticking: a Tracks with a looping child returns Active on
\* every tick, and a Sequence driven only by tick never moves its index past
\* a looping child, so it never returns Completed and no child after the
\* looping one is ever ticked.
C27_LoopingChildBlocks ==
    /\ (tw.kind = "Tracks" /\ LoopingAt(tw.tracks) # {} /\ ~seeked) =>
          /\ Ticked => last.state = "Active"
          /\ ~ended
    /\ (tw.kind = "Sequence" /\ LoopingAt(tw.tweens) # {} /\ ~seeked) =>
          /\ \A i \in LoopingAt(tw.tweens) :
                /\ tw.index < i
                /\ \A j \in (i + 1)..Len(tw.tweens) :
                      /\ tw.tweens[j] = FreshOf(tw.tweens[j])
                      /\ IsTween(tw.tweens[j]) =>
                            /\ RIsZero(target[tw.tweens[j].lens])
                            /\ \A e \in 1..Len(last.log) :
                                  last.log[e].who # tw.tweens[j].lens
          /\ Ticked => last.state = "Active"
          /\ ~ended
          /\ times_completed(tw) = 0

\* a Sequence reached its looping second child and stays on it, loop after
\* loop
C27_Witness ==
    /\ tw.kind = "Sequence" /\ LoopingAt(tw.tweens) = {2} /\ ~seeked
    /\ tw.index = 1
    /\ times_completed(tw.tweens[2]) >= 2
    /\ last.op = "tick" /\ last.state = "Active"
    /\ TimerJustFinished(tw.tweens[2].timer)

====
